---- MODULE Spec2Model ----
(***************************************************************************)
(* Model of the command-line block support generator                       *)
(* (scripts/block_support_structure_gen.py) and of the block support       *)
(* example (examples/example_block_support_structure.py).                  *)
(*                                                                         *)
(* Text is a sequence of one-character strings.  A number is kept as an    *)
(* exact decimal [m |-> mantissa, e |-> number of decimal places], with    *)
(* no trailing zero in the mantissa, so that "55", "55.0" and "55.00" are  *)
(* the same number and "0.05" is not rounded.                              *)
(***************************************************************************)
EXTENDS Integers, Sequences, FiniteSets, TLC

\* Python's None, and the two outcomes of a call: a returned value or a raised
\* exception
None == [kind |-> "None"]
Returned(v) == [kind |-> "return", value |-> v]
Raised(exc) == [kind |-> "raise", exc |-> exc]

(***************************************************************************)
(* str and float of the Python runtime, as far as the scripts use them.    *)
(***************************************************************************)
DigitSeq == <<"0", "1", "2", "3", "4", "5", "6", "7", "8", "9">>

IsDigit(c) == \E i \in 1..10 : DigitSeq[i] = c

DigitValue(c) == (CHOOSE i \in 1..10 : DigitSeq[i] = c) - 1

RECURSIVE LStrip(_)
LStrip(s) == IF s # <<>> /\ Head(s) = " " THEN LStrip(Tail(s)) ELSE s

RECURSIVE RStrip(_)
RStrip(s) ==
    IF s # <<>> /\ s[Len(s)] = " " THEN RStrip(SubSeq(s, 1, Len(s) - 1)) ELSE s

\* str.strip()
Strip(s) == RStrip(LStrip(s))

\* str.split(sep): always at least one chunk, empty chunks are kept
RECURSIVE SplitFrom(_, _, _)
SplitFrom(s, sep, cur) ==
    IF s = <<>> THEN <<cur>>
    ELSE IF Head(s) = sep THEN <<cur>> \o SplitFrom(Tail(s), sep, <<>>)
    ELSE SplitFrom(Tail(s), sep, Append(cur, Head(s)))

Split(s, sep) == SplitFrom(s, sep, <<>>)

RECURSIVE DigitsValue(_)
DigitsValue(ds) ==
    IF ds = <<>> THEN 0
    ELSE 10 * DigitsValue(SubSeq(ds, 1, Len(ds) - 1)) + DigitValue(ds[Len(ds)])

AllDigits(ds) == \A i \in 1..Len(ds) : IsDigit(ds[i])

RECURSIVE Normalise(_)
Normalise(d) ==
    IF d.e > 0 /\ d.m % 10 = 0 THEN Normalise([m |-> d.m \div 10, e |-> d.e - 1])
    ELSE d

\* float(text) for plain decimal text: surrounding blanks are ignored, then an
\* optional sign, digits with at most one point and at least one digit.
\* Anything else raises ValueError.
ParseFloat(text) ==
    LET t == Strip(text)
        signed == t # <<>> /\ Head(t) \in {"-", "+"}
        body == IF signed THEN Tail(t) ELSE t
        fields == Split(body, ".")
        int == fields[1]
        frac == IF Len(fields) = 2 THEN fields[2] ELSE <<>>
        mag == DigitsValue(int \o frac)
    IN  IF /\ Len(fields) \in {1, 2}
           /\ AllDigits(int) /\ AllDigits(frac)
           /\ Len(int) + Len(frac) > 0
        THEN Returned(Normalise(
                 [m |-> IF signed /\ Head(t) = "-" THEN 0 - mag ELSE mag,
                  e |-> Len(frac)]))
        ELSE Raised("ValueError")

RECURSIVE Pow10(_)
Pow10(n) == IF n = 0 THEN 1 ELSE 10 * Pow10(n - 1)

\* a < b and a <= b on numbers
Less(a, b) == a.m * Pow10(b.e) < b.m * Pow10(a.e)

Num(n) == [m |-> n, e |-> 0]

(***************************************************************************)
(* parse_rotation                                                          *)
(***************************************************************************)
NonBlank(chunk) == Strip(chunk) # <<>>

StrippedAll(chunks) == [i \in 1..Len(chunks) |-> Strip(chunks[i])]

\* parse_rotation keeping the blank chunks of the split
parse_rotation_blanks_kept(text) ==
    LET parts == StrippedAll(Split(text, ","))
        floats == [i \in 1..Len(parts) |-> ParseFloat(parts[i])]
    IN  IF Len(parts) # 3
        THEN Raised("ArgumentTypeError: three comma-separated values")
        ELSE IF \E i \in 1..3 : floats[i].kind = "raise"
             THEN Raised("ArgumentTypeError: values must be numeric")
        ELSE Returned([i \in 1..3 |-> floats[i].value])

parse_rotation(text) ==
    LET parts == StrippedAll(SelectSeq(Split(text, ","), NonBlank))
        floats == [i \in 1..Len(parts) |-> ParseFloat(parts[i])]
    IN  IF Len(parts) # 3
        THEN Raised("ArgumentTypeError: three comma-separated values")
        ELSE IF \E i \in 1..3 : floats[i].kind = "raise"
             THEN Raised("ArgumentTypeError: values must be numeric")
        ELSE Returned([i \in 1..3 |-> floats[i].value])

(***************************************************************************)
(* The command line.  Every option of parse_args is named by its dest.     *)
(***************************************************************************)
\* at most MaxGiven options are given on one command line
MaxGiven == 1

\* identifySupportRegions returns at most MaxRegions regions
MaxRegions == 3

GeneratorOpts ==
    {"overhang_angle", "ray_resolution", "inner_gap", "outer_gap",
     "simplify_factor", "triangulation_spacing", "min_area", "spline_factor"}

FloatOpts == GeneratorOpts \cup {"drop_height"}

AllOpts == FloatOpts \cup {"rotation"}

\* the texts tried as the value of a float option
FloatTokens ==
    {<<"0">>, <<"-", "1">>, <<"4", "5">>, <<"9", "5">>, <<"0", ".", "5">>, <<"x">>}

\* the texts tried as the value of --rotation
RotationTokens ==
    {<<"6", "2", ",", "5", "0", ",", "0">>, <<"1", ",", "-", "2", ",", "3">>,
     <<"1", ",", "2">>, <<"1", ",", "x", ",", "3">>}

TokensOf(opt) == IF opt = "rotation" THEN RotationTokens ELSE FloatTokens

CommandLines ==
    UNION {{f \in [S -> FloatTokens \cup RotationTokens] :
                \A o \in S : f[o] \in TokensOf(o)} :
           S \in {T \in SUBSET AllOpts : Cardinality(T) <= MaxGiven}}

\* default= of each add_argument, as the literal is written in the source
DefaultLiteral(opt) ==
    CASE opt = "overhang_angle" -> <<"5", "5", ".", "0">>
      [] opt = "ray_resolution" -> <<"0", ".", "0", "5">>
      [] opt = "inner_gap" -> <<"0", ".", "3">>
      [] opt = "outer_gap" -> <<"0", ".", "3">>
      [] opt = "simplify_factor" -> <<"0", ".", "5">>
      [] opt = "triangulation_spacing" -> <<"2", ".", "0">>
      [] opt = "min_area" -> <<"0", ".", "1">>
      [] opt = "spline_factor" -> <<"1", "0", ".", "0">>
      [] opt = "drop_height" -> <<"1", "0", ".", "0">>

\* default=[0, 0, 0] of --rotation
DefaultRotation == <<Num(0), Num(0), Num(0)>>

\* type= of each add_argument applied to the text given for it
ConvertOption(opt, text) ==
    IF opt = "rotation" THEN parse_rotation(text) ELSE ParseFloat(text)

\* parser.parse_args(argv): the namespace, or the parser's error exit (status 2)
\* when the type of a given option rejects its text
parse_args(opts) ==
    IF \E o \in DOMAIN opts : ConvertOption(o, opts[o]).kind = "raise"
    THEN Raised("SystemExit 2")
    ELSE Returned([o \in AllOpts |->
            IF o \in DOMAIN opts THEN ConvertOption(o, opts[o]).value
            ELSE IF o = "rotation" THEN DefaultRotation
            ELSE ParseFloat(DefaultLiteral(o)).value])

\* Part(...), setGeometry, scaleFactor = 1.0, rotation, dropToPlatform
configure_part(stl_path, drop_height, rotation) ==
    [geometry |-> stl_path, scaleFactor |-> ParseFloat(<<"1", ".", "0">>).value,
     rotation |-> rotation, dropHeight |-> drop_height]

\* configure_generator with the two gaps taken from each other's option
configure_generator_gaps_swapped(a) ==
    [overhangAngle |-> a["overhang_angle"],
     rayProjectionResolution |-> a["ray_resolution"],
     innerSupportEdgeGap |-> a["outer_gap"],
     outerSupportEdgeGap |-> a["inner_gap"],
     simplifyPolygonFactor |-> a["simplify_factor"],
     triangulationSpacing |-> a["triangulation_spacing"],
     minimumAreaThreshold |-> a["min_area"],
     splineSimplificationFactor |-> a["spline_factor"]]

\* BlockSupportGenerator() with its eight fields set from the namespace
configure_generator(a) ==
    [overhangAngle |-> a["overhang_angle"],
     rayProjectionResolution |-> a["ray_resolution"],
     innerSupportEdgeGap |-> a["inner_gap"],
     outerSupportEdgeGap |-> a["outer_gap"],
     simplifyPolygonFactor |-> a["simplify_factor"],
     triangulationSpacing |-> a["triangulation_spacing"],
     minimumAreaThreshold |-> a["min_area"],
     splineSimplificationFactor |-> a["spline_factor"]]

\* a region as identifySupportRegions returns it: its id in discovery order and
\* its supportVolume, a mesh or None
Mesh(i) == [kind |-> "mesh", id |-> i]

Region(i, hasVolume) ==
    [id |-> i, supportVolume |-> IF hasVolume THEN Mesh(i) ELSE None]

RegionLists ==
    UNION {{[i \in 1..n |-> Region(i, b[i])] : b \in [1..n -> BOOLEAN]} :
           n \in 0..MaxRegions}

\* truth value of a supportVolume
Truthy(v) == v # None

HasVolume(region) == Truthy(region.supportVolume)

VolumesOf(regions) == [i \in 1..Len(regions) |-> regions[i].supportVolume]

\* [region.supportVolume for region in support_regions if region.supportVolume]
SupportMeshes(regions) == VolumesOf(SelectSeq(regions, HasVolume))

\* the file export_supports writes: one scene holding the meshes in order
export_supports(meshes) == [kind |-> "glb", scene |-> meshes]

(***************************************************************************)
(* The example: slicing the block supports and building a Layer            *)
(***************************************************************************)
\* the example slices at most MaxBlocks regions
MaxBlocks == 2

\* a cross-section has at most MaxRings boundary rings
MaxRings == 2

\* z_height = 10.0
z_height == 10

\* myPart.dropToPlatform(10): the lowest point of the part is at this height
PlatformDrop == 10

\* a solid, as far as slicing reads it: its Z extent
Solid(i, lo, hi) == [kind |-> "mesh", id |-> i, zmin |-> lo, zmax |-> hi]

\* a support block rests on the platform; three tops are tried: below the
\* slicing plane, on it and above it
BlockTops == {z_height - 5, z_height, z_height + 2}

ExampleRegion(i, top) ==
    [id |-> i, supportVolume |-> IF top = 0 THEN None ELSE Solid(i, 0, top)]

ExampleRegionLists ==
    UNION {{[i \in 1..n |-> ExampleRegion(i, t[i])] :
                t \in [1..n -> BlockTops \cup {0}]} : n \in 0..MaxBlocks}

\* myPart.geometry after dropToPlatform(10)
PartGeometry == Solid(0, PlatformDrop, PlatformDrop + 20)

RECURSIVE SumSeq(_)
SumSeq(q) == IF q = <<>> THEN 0 ELSE Head(q) + SumSeq(Tail(q))

\* the polygons of a cross-section, as the number of holes of each polygon
PolyShapes ==
    {q \in UNION {[1..n -> 0..MaxRings] : n \in 1..MaxRings} :
        Len(q) + SumSeq(q) <= MaxRings}

\* a boundary ring of polygon p of the section of one solid: ring 0 is the
\* exterior, ring h > 0 the h-th hole
Ring(solidId, p, r) == [kind |-> "ring", solid |-> solidId, poly |-> p, ring |-> r]

Polygon(solidId, p, holes) ==
    [exterior |-> Ring(solidId, p, 0),
     interiors |-> [h \in 1..holes |-> Ring(solidId, p, h)]]

Path3D(solid, shape) == [kind |-> "Path3D", solid |-> solid.id, polys |-> shape]

\* Trimesh.section(plane_origin=[0, 0, z], plane_normal=[0, 0, 1]): the results
\* it may give.  None off the Z extent of the solid, a section strictly inside
\* it; on the lowest or highest plane of the solid either may come back.
Section(solid, z) ==
    IF z < solid.zmin \/ z > solid.zmax THEN {None}
    ELSE IF solid.zmin < z /\ z < solid.zmax
         THEN {Path3D(solid, q) : q \in PolyShapes}
    ELSE {None} \cup {Path3D(solid, q) : q \in PolyShapes}

\* section.to_planar(np.eye(4)) of a horizontal section: the same polygons
to_planar(section) == section

\* planarSection.polygons_full
polygons_full(planar) ==
    [p \in 1..Len(planar.polys) |-> Polygon(planar.solid, p, planar.polys[p])]

ContourGeometry(coords) == [kind |-> "ContourGeometry", coords |-> coords]

\* the conversion of a polygon without the loop over its interiors
PolygonContours_exterior_only(poly) ==
    IF Truthy(poly.exterior) THEN <<ContourGeometry(poly.exterior)>> ELSE <<>>

\* lines 203-213: the contours one polygon adds to the layer
PolygonContours(poly) ==
    (IF Truthy(poly.exterior) THEN <<ContourGeometry(poly.exterior)>> ELSE <<>>)
    \o [h \in 1..Len(poly.interiors) |-> ContourGeometry(poly.interiors[h])]

RECURSIVE ContoursOf(_)
ContoursOf(polys) ==
    IF polys = <<>> THEN <<>>
    ELSE PolygonContours(Head(polys)) \o ContoursOf(Tail(polys))

\* lines 197-213: the contours one section adds to the layer
SectionContours(section) == ContoursOf(polygons_full(to_planar(section)))

\* line 96: [block.supportVolume for block in supportBlockRegions]
BlockSupports(regions) == VolumesOf(regions)

(***************************************************************************)
(* main of scripts/block_support_structure_gen.py                          *)
(***************************************************************************)
VARIABLES
    pc,             \* the statement main is at
    argv,           \* the options given on the command line, dest -> text
    show,           \* --show was given
    args,           \* the namespace parse_args returned, or None
    part,           \* the Part configure_part returned, or None
    generator,      \* the generator configure_generator returned, or None
    support_regions,    \* bound by line 198, <<>> until then
    support_meshes,     \* bound by line 199, <<>> until then
    glb,            \* the GLB file written, or None
    calls,          \* the calls main made so far and how each ended
    status,         \* how main ended: None while it runs
    \* the example script
    epc,                    \* the statement the example is at
    supportBlockRegions,    \* bound by line 91
    blockSupports,          \* bound by line 96
    s1,                     \* the scene exported at lines 145-155
    s2,                     \* the scene shown at lines 163-164
    sliced,                 \* the blocks the loop of line 176 has sliced
    support_sections,
    part_section,
    s3,                     \* the scene shown at lines 188-190
    layer,                  \* layer.geometry
    converted,              \* the sections the loop of line 196 has converted
    estatus,                \* how the example ended: None while it runs
    \* one call of parse_rotation
    value,                  \* its argument
    result                  \* its outcome, None before the call

mainVars ==
    <<pc, argv, show, args, part, generator, support_regions, support_meshes,
      glb, calls, status>>

exampleVars ==
    <<epc, supportBlockRegions, blockSupports, s1, s2, sliced, support_sections,
      part_section, s3, layer, converted, estatus>>

rotationVars == <<value, result>>

vars == <<mainVars, exampleVars, rotationVars>>

\* the example has not started
ExampleIdle ==
    /\ epc = "idle"
    /\ supportBlockRegions = <<>>
    /\ blockSupports = <<>>
    /\ s1 = <<>>
    /\ s2 = <<>>
    /\ sliced = 0
    /\ support_sections = <<>>
    /\ part_section = None
    /\ s3 = <<>>
    /\ layer = <<>>
    /\ converted = 0
    /\ estatus = None

RotationIdle == value = <<>> /\ result = None

MainStart ==
    /\ pc = "parse_args"
    /\ argv \in CommandLines
    /\ show \in BOOLEAN
    /\ args = None
    /\ part = None
    /\ generator = None
    /\ support_regions = <<>>
    /\ support_meshes = <<>>
    /\ glb = None
    /\ calls = <<>>
    /\ status = None

MainIdle ==
    /\ pc = "idle"
    /\ argv = <<>>
    /\ show = FALSE
    /\ args = None
    /\ part = None
    /\ generator = None
    /\ support_regions = <<>>
    /\ support_meshes = <<>>
    /\ glb = None
    /\ calls = <<>>
    /\ status = None

Return(code) == pc' = "done" /\ status' = Returned(code)

\* line 179
ParseArgs ==
    /\ pc = "parse_args"
    /\ LET r == parse_args(argv)
       IN  IF r.kind = "raise"
           THEN /\ pc' = "done"
                /\ status' = r
                /\ UNCHANGED args
           ELSE /\ pc' = "check_input"
                /\ args' = r.value
                /\ UNCHANGED status
    /\ UNCHANGED <<argv, show, part, generator, support_regions, support_meshes,
                   glb, calls>>
    /\ UNCHANGED <<exampleVars, rotationVars>>

\* lines 183-185
CheckInput ==
    /\ pc = "check_input"
    /\ \E isFile \in BOOLEAN :
          IF ~isFile
          THEN /\ calls' = Append(calls, "is_file: False")
               /\ Return(1)
          ELSE /\ calls' = Append(calls, "is_file: True")
               /\ pc' = "configure_part"
               /\ UNCHANGED status
    /\ UNCHANGED <<argv, show, args, part, generator, support_regions,
                   support_meshes, glb>>
    /\ UNCHANGED <<exampleVars, rotationVars>>

\* lines 187-191 without the return of line 191
ConfigurePart_no_return ==
    /\ pc = "configure_part"
    /\ \E loaded \in BOOLEAN :
          /\ calls' = Append(calls, IF loaded THEN "configure_part: returned"
                                    ELSE "configure_part: raised")
          /\ part' = IF loaded
                     THEN configure_part("input_stl", args["drop_height"],
                                         args["rotation"])
                     ELSE part
    /\ pc' = "configure_generator"
    /\ UNCHANGED <<argv, show, args, generator, support_regions, support_meshes,
                   glb, status>>
    /\ UNCHANGED <<exampleVars, rotationVars>>

\* lines 187-191
ConfigurePart ==
    /\ pc = "configure_part"
    /\ \E loaded \in BOOLEAN :
          IF ~loaded
          THEN /\ calls' = Append(calls, "configure_part: raised")
               /\ Return(1)
               /\ UNCHANGED part
          ELSE /\ calls' = Append(calls, "configure_part: returned")
               /\ part' = configure_part("input_stl", args["drop_height"],
                                         args["rotation"])
               /\ pc' = "configure_generator"
               /\ UNCHANGED status
    /\ UNCHANGED <<argv, show, args, generator, support_regions, support_meshes,
                   glb>>
    /\ UNCHANGED <<exampleVars, rotationVars>>

\* line 193
ConfigureGenerator ==
    /\ pc = "configure_generator"
    /\ generator' = configure_generator(args)
    /\ pc' = "identify"
    /\ UNCHANGED <<argv, show, args, part, support_regions, support_meshes, glb,
                   calls, status>>
    /\ UNCHANGED <<exampleVars, rotationVars>>

\* lines 198-201 without the check of lines 203-205
IdentifySupportRegions_no_empty_check ==
    /\ pc = "identify"
    /\ \/ /\ calls' = Append(calls, "identifySupportRegions: raised")
          /\ pc' = "done"
          /\ status' = Raised("Exception")
          /\ UNCHANGED <<support_regions, support_meshes>>
       \/ \E regions \in RegionLists :
             /\ calls' = Append(calls, "identifySupportRegions: returned")
             /\ support_regions' = regions
             /\ support_meshes' = SupportMeshes(regions)
             /\ pc' = "export"
             /\ UNCHANGED status
    /\ UNCHANGED <<argv, show, args, part, generator, glb>>
    /\ UNCHANGED <<exampleVars, rotationVars>>

\* lines 198-205: identifySupportRegions is called outside any try
IdentifySupportRegions ==
    /\ pc = "identify"
    /\ \/ /\ calls' = Append(calls, "identifySupportRegions: raised")
          /\ pc' = "done"
          /\ status' = Raised("Exception")
          /\ UNCHANGED <<support_regions, support_meshes>>
       \/ \E regions \in RegionLists :
             /\ calls' = Append(calls, "identifySupportRegions: returned")
             /\ support_regions' = regions
             /\ support_meshes' = SupportMeshes(regions)
             /\ IF SupportMeshes(regions) = <<>>
                THEN Return(0)
                ELSE pc' = "export" /\ UNCHANGED status
    /\ UNCHANGED <<argv, show, args, part, generator, glb>>
    /\ UNCHANGED <<exampleVars, rotationVars>>

\* lines 207-215
ExportSupports ==
    /\ pc = "export"
    /\ \E written \in BOOLEAN :
          IF ~written
          THEN /\ calls' = Append(calls, "export_supports: raised")
               /\ Return(1)
               /\ UNCHANGED glb
          ELSE /\ calls' = Append(calls, "export_supports: returned")
               /\ glb' = export_supports(support_meshes)
               /\ IF show THEN pc' = "show" /\ UNCHANGED status ELSE Return(0)
    /\ UNCHANGED <<argv, show, args, part, generator, support_regions,
                   support_meshes>>
    /\ UNCHANGED <<exampleVars, rotationVars>>

\* lines 215-221
MaybeShowScene ==
    /\ pc = "show"
    /\ \E shown \in BOOLEAN :
          calls' = Append(calls, IF shown THEN "maybe_show_scene: returned"
                                 ELSE "maybe_show_scene: raised")
    /\ Return(0)
    /\ UNCHANGED <<argv, show, args, part, generator, support_regions,
                   support_meshes, glb>>
    /\ UNCHANGED <<exampleVars, rotationVars>>

MainNext ==
    \/ ParseArgs
    \/ CheckInput
    \/ ConfigurePart
    \/ ConfigureGenerator
    \/ IdentifySupportRegions
    \/ ExportSupports
    \/ MaybeShowScene

Init == MainStart /\ ExampleIdle /\ RotationIdle

Spec == Init /\ [][MainNext]_vars

(***************************************************************************)
(* examples/example_block_support_structure.py, from line 91 on            *)
(***************************************************************************)
ExampleStart ==
    /\ epc = "identify"
    /\ supportBlockRegions = <<>>
    /\ blockSupports = <<>>
    /\ s1 = <<>>
    /\ s2 = <<>>
    /\ sliced = 0
    /\ support_sections = <<>>
    /\ part_section = None
    /\ s3 = <<>>
    /\ layer = <<>>
    /\ converted = 0
    /\ estatus = None

\* lines 91-96
ExampleIdentify ==
    /\ epc = "identify"
    /\ \E regions \in ExampleRegionLists :
          /\ supportBlockRegions' = regions
          /\ blockSupports' = BlockSupports(regions)
    /\ epc' = "export"
    /\ UNCHANGED <<s1, s2, sliced, support_sections, part_section, s3, layer,
                   converted, estatus>>
    /\ UNCHANGED <<mainVars, rotationVars>>

\* lines 145-155: the scene of the block supports is exported as GLB and STL
ExampleExport ==
    /\ epc = "export"
    /\ s1' = blockSupports
    /\ epc' = "show"
    /\ UNCHANGED <<supportBlockRegions, blockSupports, s2, sliced,
                   support_sections, part_section, s3, layer, converted, estatus>>
    /\ UNCHANGED <<mainVars, rotationVars>>

\* lines 160-164
ExampleShow ==
    /\ epc = "show"
    /\ s2' = <<PartGeometry, [kind |-> "mesh", id |-> "overhang"]>> \o blockSupports
    /\ epc' = "slice"
    /\ UNCHANGED <<supportBlockRegions, blockSupports, s1, sliced,
                   support_sections, part_section, s3, layer, converted, estatus>>
    /\ UNCHANGED <<mainVars, rotationVars>>

\* lines 176-179, one pass of the loop; None has no section method
SliceBlock ==
    /\ epc = "slice"
    /\ sliced < Len(blockSupports)
    /\ LET block == blockSupports[sliced + 1]
       IN  IF block = None
           THEN /\ estatus' = Raised("AttributeError")
                /\ epc' = "done"
                /\ UNCHANGED <<sliced, support_sections>>
           ELSE /\ \E section \in Section(block, z_height) :
                      support_sections' =
                          IF section # None THEN Append(support_sections, section)
                          ELSE support_sections
                /\ sliced' = sliced + 1
                /\ UNCHANGED <<epc, estatus>>
    /\ UNCHANGED <<supportBlockRegions, blockSupports, s1, s2, part_section, s3,
                   layer, converted>>
    /\ UNCHANGED <<mainVars, rotationVars>>

\* lines 182-190: the part is sliced and the sections are shown
SlicePart ==
    /\ epc = "slice"
    /\ sliced = Len(blockSupports)
    /\ \E section \in Section(PartGeometry, z_height) :
          /\ part_section' = section
          /\ s3' = IF support_sections # <<>>
                   THEN <<section>> \o support_sections
                   ELSE s3
    /\ epc' = "layer"
    /\ UNCHANGED <<supportBlockRegions, blockSupports, s1, s2, sliced,
                   support_sections, layer, converted, estatus>>
    /\ UNCHANGED <<mainVars, rotationVars>>

\* lines 196-213, one pass of the outer loop
ConvertSection ==
    /\ epc = "layer"
    /\ converted < Len(support_sections)
    /\ layer' = layer \o SectionContours(support_sections[converted + 1])
    /\ converted' = converted + 1
    /\ UNCHANGED <<epc, supportBlockRegions, blockSupports, s1, s2, sliced,
                   support_sections, part_section, s3, estatus>>
    /\ UNCHANGED <<mainVars, rotationVars>>

\* lines 215-217
PlotLayer ==
    /\ epc = "layer"
    /\ converted = Len(support_sections)
    /\ epc' = "done"
    /\ estatus' = Returned(IF Len(layer) > 0 THEN "plotted" ELSE "nothing to plot")
    /\ UNCHANGED <<supportBlockRegions, blockSupports, s1, s2, sliced,
                   support_sections, part_section, s3, layer, converted>>
    /\ UNCHANGED <<mainVars, rotationVars>>

ExampleNext ==
    \/ ExampleIdentify
    \/ ExampleExport
    \/ ExampleShow
    \/ SliceBlock
    \/ SlicePart
    \/ ConvertSection
    \/ PlotLayer

ExampleInit == MainIdle /\ ExampleStart /\ RotationIdle

SpecExample == ExampleInit /\ [][ExampleNext]_vars

(***************************************************************************)
(* One call of parse_rotation on a text of the command line                *)
(***************************************************************************)
\* a rotation text has at most MaxLen characters
MaxLen == 6

RotationChars == {"1", "2", "-", ",", " "}

RotationTexts == UNION {[1..n -> RotationChars] : n \in 0..MaxLen}

CallParseRotation ==
    /\ result = None
    /\ result' = parse_rotation(value)
    /\ UNCHANGED value
    /\ UNCHANGED <<mainVars, exampleVars>>

RotationInit ==
    /\ MainIdle
    /\ ExampleIdle
    /\ value \in RotationTexts
    /\ result = None

SpecRotation == RotationInit /\ [][CallParseRotation]_vars

(***************************************************************************)
(* Claims about the command-line generator                                 *)
(***************************************************************************)
Called(what) == \E i \in 1..Len(calls) : calls[i] = what

CallIndex(what) == CHOOSE i \in 1..Len(calls) : calls[i] = what

Positive(v) == Less(Num(0), v)

ValidConfiguration(a) ==
    /\ Less(Num(0), a["overhang_angle"])
    /\ Less(a["overhang_angle"], Num(90))
    /\ \A o \in GeneratorOpts \ {"overhang_angle"} : Positive(a[o])

PartLoadingStarted ==
    Called("configure_part: returned") \/ Called("configure_part: raised")

\* C1: a command line whose overhang angle is outside (0, 90) or whose ray
\* resolution, gap, simplify factor, spacing, minimum area or spline factor is
\* not positive is rejected before any part is loaded, any generator is
\* configured and any region is identified.
C1_InvalidConfigurationRejected ==
    (args # None /\ ~ValidConfiguration(args)) =>
        /\ ~PartLoadingStarted
        /\ generator = None
        /\ ~Called("identifySupportRegions: returned")
        /\ ~Called("identifySupportRegions: raised")

InputFailed == Called("is_file: False") \/ Called("configure_part: raised")

\* C2: when the input path is not a file or loading the part raises, main has
\* returned 1 and nothing downstream has run: no generator is configured,
\* identifySupportRegions is not called, no GLB is written, no scene is shown.
C2_InputErrorFailsFast ==
    InputFailed =>
        /\ pc = "done"
        /\ status = Returned(1)
        /\ generator = None
        /\ glb = None
        /\ \A i \in 1..Len(calls) :
              calls[i] \in {"is_file: False", "is_file: True",
                            "configure_part: raised"}

C2_Witness == Called("configure_part: raised") /\ pc = "done"

\* the defaults of section 6 of the specification, as written there
SpecifiedDefault(opt) ==
    CASE opt = "overhang_angle" -> <<"5", "5">>
      [] opt = "ray_resolution" -> <<"0", ".", "0", "5">>
      [] opt = "inner_gap" -> <<"0", ".", "3">>
      [] opt = "outer_gap" -> <<"0", ".", "3">>
      [] opt = "simplify_factor" -> <<"0", ".", "5">>
      [] opt = "triangulation_spacing" -> <<"2", ".", "0">>
      [] opt = "min_area" -> <<"0", ".", "1">>
      [] opt = "spline_factor" -> <<"1", "0">>

GeneratorField(g, opt) ==
    CASE opt = "overhang_angle" -> g.overhangAngle
      [] opt = "ray_resolution" -> g.rayProjectionResolution
      [] opt = "inner_gap" -> g.innerSupportEdgeGap
      [] opt = "outer_gap" -> g.outerSupportEdgeGap
      [] opt = "simplify_factor" -> g.simplifyPolygonFactor
      [] opt = "triangulation_spacing" -> g.triangulationSpacing
      [] opt = "min_area" -> g.minimumAreaThreshold
      [] opt = "spline_factor" -> g.splineSimplificationFactor

\* C3: every field of the configured generator holds the number given for its
\* option on the command line, and the specified default when the option is
\* not given.
C3_GeneratorDefaultsAndValues ==
    generator # None =>
        \A o \in GeneratorOpts :
            GeneratorField(generator, o) =
                IF o \in DOMAIN argv THEN ParseFloat(argv[o]).value
                ELSE ParseFloat(SpecifiedDefault(o)).value

C3_Witness == generator # None /\ DOMAIN argv = {"inner_gap"}

\* the default the help text of --rotation documents: 62,50,0
DocumentedRotation ==
    parse_rotation(<<"6", "2", ",", "5", "0", ",", "0">>).value

\* C7: without --rotation the part is configured with the rotation the help
\* text documents as the default, (62, 50, 0).
C7_DocumentedDefaultRotation ==
    (part # None /\ "rotation" \notin DOMAIN argv) =>
        part.rotation = DocumentedRotation

\* C8: once the arguments are parsed, main ends by returning a status, which is
\* 1 exactly when the input file is missing, loading the part raised or writing
\* the GLB raised, and 0 otherwise; no exception escapes.
C8_MainAlwaysReturnsStatus ==
    (pc = "done" /\ args # None) =>
        /\ status.kind = "return"
        /\ status.value \in {0, 1}
        /\ status.value = 1 <=>
              \/ Called("is_file: False")
              \/ Called("configure_part: raised")
              \/ Called("export_supports: raised")

ExportCalls ==
    {i \in 1..Len(calls) :
        calls[i] \in {"export_supports: returned", "export_supports: raised"}}

ShowCalled ==
    Called("maybe_show_scene: returned") \/ Called("maybe_show_scene: raised")

SomeVolume == \E i \in 1..Len(support_regions) : HasVolume(support_regions[i])

\* C9: the GLB is written at most once, and only after identifySupportRegions
\* returned a region with a support volume; when it returned none, nothing is
\* exported or shown and main returns 0; the scene is shown only after the GLB
\* was written.
C9_ExportOnceAfterRegions ==
    /\ Cardinality(ExportCalls) <= 1
    /\ ExportCalls # {} =>
          /\ Called("identifySupportRegions: returned")
          /\ \A i \in ExportCalls :
                CallIndex("identifySupportRegions: returned") < i
          /\ SomeVolume
    /\ glb # None =>
          /\ Called("export_supports: returned")
          /\ glb.scene # <<>>
    /\ (Called("identifySupportRegions: returned") /\ ~SomeVolume) =>
          /\ ExportCalls = {}
          /\ glb = None
          /\ ~ShowCalled
          /\ pc = "done"
          /\ status = Returned(0)
    /\ ShowCalled =>
          /\ show
          /\ glb # None
          /\ Called("export_supports: returned")
          /\ \A i \in 1..Len(calls) :
                calls[i] \in {"maybe_show_scene: returned",
                              "maybe_show_scene: raised"} =>
                    CallIndex("export_supports: returned") < i

C9_Witness ==
    /\ show
    /\ Called("maybe_show_scene: returned")
    /\ Len(support_regions) > Len(support_meshes)


(***************************************************************************)
(* Claims about the example                                                *)
(***************************************************************************)
InExtent(solid, z) == solid.zmin <= z /\ z <= solid.zmax

StrictlyInside(solid, z) == solid.zmin < z /\ z < solid.zmax

SectionsOf(solid) ==
    {i \in 1..Len(support_sections) : support_sections[i].solid = solid.id}

\* C4: a solid sliced off its Z extent gives no section and one sliced strictly
\* inside it gives one; no None section reaches the section scene or the Layer
\* conversion, and every contour of the Layer comes from a solid whose Z
\* extent contains z_height.
C4_EmptySectionNeverHandedOn ==
    /\ \A i \in 1..sliced :
          /\ ~InExtent(blockSupports[i], z_height) =>
                SectionsOf(blockSupports[i]) = {}
          /\ StrictlyInside(blockSupports[i], z_height) =>
                SectionsOf(blockSupports[i]) # {}
    /\ \A i \in 1..Len(support_sections) : support_sections[i] # None
    /\ \A i \in 1..Len(s3) : s3[i] # None
    /\ \A i \in 1..Len(layer) :
          \E j \in 1..Len(blockSupports) :
              /\ blockSupports[j] # None
              /\ blockSupports[j].id = layer[i].coords.solid
              /\ InExtent(blockSupports[j], z_height)

RingCount(section) == Len(section.polys) + SumSeq(section.polys)

RingCounts(sections) == [i \in 1..Len(sections) |-> RingCount(sections[i])]

SectionRings(section) ==
    UNION {{Ring(section.solid, p, r) : r \in 0..section.polys[p]} :
           p \in 1..Len(section.polys)}

SectionIndex(ring) ==
    CHOOSE k \in 1..Len(support_sections) : support_sections[k].solid = ring.solid

\* ring a comes before ring b: an earlier section, or an earlier polygon of
\* the same section, or the exterior or an earlier hole of the same polygon
RingBefore(a, b) ==
    \/ SectionIndex(a) < SectionIndex(b)
    \/ /\ SectionIndex(a) = SectionIndex(b)
       /\ \/ a.poly < b.poly
          \/ a.poly = b.poly /\ a.ring < b.ring

ConvertedSections == SubSeq(support_sections, 1, converted)

MeshesOfScene(scene, lead) == SubSeq(scene, lead + 1, Len(scene))

\* C6: the meshes handed to export and to display are the supportVolume values
\* of the regions in the order identifySupportRegions returned them, the
\* regions without a support volume left out.
C6_SupportMeshesInRegionOrder ==
    /\ epc \in {"show", "slice", "layer", "done"} =>
          s1 = SelectSeq(VolumesOf(supportBlockRegions), Truthy)
    /\ epc \in {"slice", "layer", "done"} =>
          MeshesOfScene(s2, 2) = SelectSeq(VolumesOf(supportBlockRegions), Truthy)

(***************************************************************************)
(* Claims about parse_rotation                                             *)
(***************************************************************************)
Numeric(text) == ParseFloat(text).kind = "return"

Fields == Split(value, ",")

NonBlankFields == {i \in 1..Len(Fields) : \E j \in 1..Len(Fields[i]) : Fields[i][j] # " "}

====
